---- MODULE Spec2Model ----
(***************************************************************************)
(* Model of the Spout2 capture source of win-spout.cpp: the win_spout      *)
(* context struct, the producer directory it queries through the Spout     *)
(* handle, the textures it imports, and the host callbacks create, update, *)
(* show, hide, tick, render and destroy.                                    *)
(***************************************************************************)
EXTENDS Integers, Sequences, FiniteSets, TLC

VARIABLES
    senderName,      \* char senderName[256]
    useFirstSender,  \* bool useFirstSender
    texture,         \* gs_texture_t *texture
    dxHandle,        \* HANDLE dxHandle
    spoutptr,        \* SPOUTHANDLE spoutptr
    lastCheckTick,   \* DWORD lastCheckTick
    width,           \* int width
    height,          \* int height
    initialized,     \* bool initialized
    active,          \* bool active
    phase,           \* "live", "destroyed" (after win_spout_destroy), "crashed" (null
                     \* dereference) or "corrupt" (write past the end of senderName)
    settings,        \* the obs_data_t settings object the host keeps for the source
    senders,         \* the Spout directory: names of the active senders, by index
    importable,      \* share handles gs_texture_open_shared can currently open
    activeSender,    \* the directory's active sender (SetActiveSender)
    now,             \* GetTickCount(), a DWORD
    advances,        \* number of clock steps taken
    nextTex,         \* identity of the next texture the graphics subsystem creates
    destroyed,       \* texture identity -> number of gs_texture_destroy calls on it
    bound,           \* what GetSenderInfo returned for the current binding
    lastOp,          \* record of the last host callback, while the surroundings stay as it saw them
    prevOp,          \* whether the callback before it was a tick, and what that tick did;
                     \* repeat: lastOp is an update that follows an update with the same settings
    race             \* hide and render running statement by statement on two threads:
                     \* where each is, who holds the graphics scope

ctxVars == <<senderName, useFirstSender, texture, dxHandle, spoutptr,
             lastCheckTick, width, height, initialized, active>>

vars == <<senderName, useFirstSender, texture, dxHandle, spoutptr, lastCheckTick,
          width, height, initialized, active, phase, settings, senders,
          importable, activeSender, now, advances, nextTex, destroyed,
          bound, lastOp, prevOp, race>>

----------------------------------------------------------------------------
(* Bounds of the model *)

\* textures the graphics subsystem may create in one run
MaxTex == 2
\* clock steps in one run
MaxAdvance == 1

----------------------------------------------------------------------------
(* Values *)

\* the null texture pointer
NULL == [id |-> 0, h |-> "none"]
\* the null share handle / the null Spout handle
NoHandle == "none"
NoSpout == "NULL"
TheSpout == "spout"

\* a DWORD is kept as its two 16-bit halves <<high, low>>
Half == 65536
Dw(hi, lo) == <<hi, lo>>
DwZero == Dw(0, 0)
DwSub(a, b) ==
    LET borrow == IF a[2] < b[2] THEN 1 ELSE 0
    IN  Dw((a[1] - b[1] - borrow) % Half, (a[2] - b[2]) % Half)
DwAdd(a, b) ==
    LET carry == IF a[2] + b[2] >= Half THEN 1 ELSE 0
    IN  Dw((a[1] + b[1] + carry) % Half, (a[2] + b[2]) % Half)
DwLess(a, b) == a[1] < b[1] \/ (a[1] = b[1] /\ a[2] < b[2])

\* the retry period of win_spout_init, in milliseconds
RetryMs == 5000
RetryDw == Dw(0, RetryMs)

\* tick count at which the source is created: 2 s before GetTickCount wraps
\* to 0, so that the clock passes through values below the retry period
StartTicks == {Dw(65535, 63536)}
\* clock steps, in milliseconds: longer than the retry period
StepMs == {6000}

\* size of the senderName buffer
SenderNameSize == 256

\* the producers that may publish, with what the directory reports for each
SenderNames == {"camA", "camB"}
SenderInfo(n) ==
    CASE n = "camA" -> [name |-> "camA", width |-> 1920, height |-> 1080, handle |-> "hA"]
      [] n = "camB" -> [name |-> "camB", width |-> 1280, height |-> 720, handle |-> "hB"]
Handles == {SenderInfo(n).handle : n \in SenderNames}

\* texts the user may configure as the custom sender name, with their lengths
CfgNames == {"", "camA", "camB"}
\* a text longer than the senderName buffer, and its length
LongLen == 300
LongName == "a name of LongLen characters"
NameLen(n) == IF n = "" THEN 0 ELSE IF n = LongName THEN LongLen ELSE 4
Settings == [first : BOOLEAN, name : CfgNames]
LongSettings == [first : BOOLEAN, name : {LongName}]

NoBinding == [name |-> "none", width |-> 0, height |-> 0, handle |-> NoHandle]

Range(q) == {q[i] : i \in 1..Len(q)}

NoOp == [op |-> "create", t |-> DwZero, preInit |-> FALSE,
         preTex |-> NULL, ev |-> <<>>, found |-> "none", drew |-> FALSE]
EnvOp == [NoOp EXCEPT !.op = "surroundings"]
\* no callback is in progress; hostScope: the host holds the graphics scope
\* around video_render
RaceIdle == [main |-> "idle", render |-> "idle", gfx |-> "free", rtex |-> NULL,
             hostScope |-> TRUE, drewDestroyed |-> FALSE]
NoPrev == [tick |-> FALSE, t |-> DwZero, unbound |-> FALSE, attempts |-> 0,
           repeat |-> FALSE]

----------------------------------------------------------------------------
(* The instance and its surroundings as one value, threaded through the     *)
(* functions a callback calls.  ev is the list of external calls made by    *)
(* the running callback; found is the sender GetSenderInfo resolved in it.  *)

State ==
    [senderName |-> senderName, useFirstSender |-> useFirstSender,
     texture |-> texture, dxHandle |-> dxHandle, spoutptr |-> spoutptr,
     lastCheckTick |-> lastCheckTick, width |-> width, height |-> height,
     initialized |-> initialized, active |-> active, phase |-> phase,
     activeSender |-> activeSender, nextTex |-> nextTex,
     destroyed |-> destroyed, bound |-> bound, ev |-> <<>>, found |-> "none"]

Call(s, e) == [s EXCEPT !.ev = Append(@, e)]

(* Spout directory (SpoutLibrary) *)
GetSenderCount == Len(senders)
GetSenderName(index) ==
    IF index + 1 \in 1..Len(senders)
    THEN [ok |-> TRUE, name |-> senders[index + 1]]
    ELSE [ok |-> FALSE, name |-> ""]
SetActiveSender(n) == n \in Range(senders)
GetSenderInfo(n) ==
    IF n \in Range(senders)
    THEN [ok |-> TRUE, info |-> SenderInfo(n)]
    ELSE [ok |-> FALSE, info |-> NoBinding]

(* graphics subsystem *)
gs_texture_destroy(s, tex) ==
    IF tex = NULL THEN s
    ELSE Call([s EXCEPT !.destroyed[tex.id] = @ + 1], "destroy")

gs_texture_open_shared(s, handle) ==
    IF handle \in importable
    THEN Call([s EXCEPT !.texture = [id |-> s.nextTex, h |-> handle],
                        !.nextTex = @ + 1], "import")
    ELSE Call([s EXCEPT !.texture = NULL], "import")

(* memset(senderName, 0, 256); strcpy(senderName, newName): the text and   *)
(* its terminator fit the buffer when the text is shorter than the buffer;  *)
(* a longer text is written past the end of senderName.                     *)
strcpy(s, newName) ==
    IF NameLen(newName) < SenderNameSize
    THEN [s EXCEPT !.senderName = newName]
    ELSE \* the fields after senderName are overwritten: what the instance
         \* does from here on is undefined, and the model follows it no further
         [s EXCEPT !.senderName = newName, !.phase = "corrupt"]

(* get_first_spount_sender: [ok, s] *)
get_first_spount_sender(s) ==
    LET s1 == Call(s, "count")
        nm == GetSenderName(0)
        s2 == IF nm.ok THEN [Call(s1, "name") EXCEPT !.senderName = nm.name]
              ELSE Call(s1, "name")
        s3 == Call(s2, "setactive")
    IN  IF GetSenderCount = 0 THEN [ok |-> FALSE, s |-> s1]
        ELSE IF ~nm.ok THEN [ok |-> FALSE, s |-> s2]
        ELSE IF ~SetActiveSender(s2.senderName) THEN [ok |-> FALSE, s |-> s3]
        ELSE [ok |-> TRUE, s |-> [s3 EXCEPT !.activeSender = s2.senderName]]

(* win_spout_init, lines 102-113: which sender to look up *)
SelectSender_NameWins(s) ==
    IF s.useFirstSender /\ s.senderName = ""
    THEN get_first_spount_sender(s)
    ELSE [ok |-> GetSenderCount # 0, s |-> Call(s, "count")]

SelectSender_AlwaysFirst(s) == get_first_spount_sender(s)

SelectSender(s) ==
    IF s.useFirstSender
    THEN get_first_spount_sender(s)
    ELSE [ok |-> GetSenderCount # 0, s |-> Call(s, "count")]

(* win_spout_init, lines 129-137: record the size, replace the texture *)
Bind(s, info) ==
    LET s1 == [s EXCEPT !.width = info.width, !.height = info.height,
                        !.dxHandle = info.handle, !.bound = info]
        s2 == gs_texture_destroy(s1, s1.texture)
        s3 == gs_texture_open_shared(s2, s2.dxHandle)
    IN  [s3 EXCEPT !.initialized = TRUE]

(* win_spout_init, line 93: GetTickCount() - 5000 < lastCheckTick && !forced, *)
(* in unsigned 32-bit arithmetic                                              *)
Throttled_Signed(s, forced) ==
    /\ ~forced
    /\ \/ DwLess(now, RetryDw)
       \/ DwLess(DwSub(now, RetryDw), s.lastCheckTick)

Throttled(s, forced) ==
    DwLess(DwSub(now, RetryDw), s.lastCheckTick) /\ ~forced

(* win_spout_init, lines 97-137 *)
Discover_SizeBeforeTest(s) ==
    IF s.spoutptr = NoSpout THEN s
    ELSE LET a == SelectSender(s)
             r == GetSenderInfo(a.s.senderName)
             s1 == [Call(a.s, "info") EXCEPT !.width = r.info.width,
                                             !.height = r.info.height]
         IN  IF ~a.ok THEN a.s
             ELSE IF ~r.ok THEN s1
             ELSE Bind([s1 EXCEPT !.found = r.info.name], r.info)

Discover(s) ==
    IF s.spoutptr = NoSpout THEN s
    ELSE LET a == SelectSender(s)
             r == GetSenderInfo(a.s.senderName)
             s1 == Call(a.s, "info")
         IN  IF ~a.ok THEN a.s
             ELSE IF ~r.ok THEN s1
             ELSE Bind([s1 EXCEPT !.found = r.info.name], r.info)

win_spout_init_NoGuard(s, forced) ==
    IF Throttled(s, forced) THEN s ELSE Discover(s)

win_spout_init(s, forced) ==
    IF s.initialized THEN s
    ELSE IF Throttled(s, forced) THEN s
    ELSE Discover(s)

(* win_spout_deinit *)
win_spout_deinit_NoClear(s) ==
    LET s1 == [s EXCEPT !.initialized = FALSE]
        s2 == IF s1.texture # NULL THEN gs_texture_destroy(s1, s1.texture) ELSE s1
    IN  IF s2.spoutptr = NoSpout THEN [s2 EXCEPT !.phase = "crashed"]
        ELSE Call(s2, "release")

win_spout_deinit_NoDestroy(s) ==
    LET s1 == [s EXCEPT !.initialized = FALSE, !.texture = NULL]
    IN  IF s1.spoutptr = NoSpout THEN [s1 EXCEPT !.phase = "crashed"]
        ELSE Call(s1, "release")

win_spout_deinit(s) ==
    LET s1 == [s EXCEPT !.initialized = FALSE]
        s2 == IF s1.texture # NULL
              THEN [gs_texture_destroy(s1, s1.texture) EXCEPT !.texture = NULL]
              ELSE s1
    IN  \* spoutptr->ReleaseReceiver() through a null spoutptr is a null dereference
        IF s2.spoutptr = NoSpout THEN [s2 EXCEPT !.phase = "crashed"]
        ELSE Call(s2, "release")

(* win_spout_update *)
win_spout_update_Toggle(s, cfg) ==
    LET s1 == strcpy([s EXCEPT !.useFirstSender = cfg.first], cfg.name)
    IN  IF s1.phase # "live" THEN s1
        ELSE IF s1.initialized THEN win_spout_deinit(s1)
        ELSE win_spout_init(s1, FALSE)

win_spout_update_NoDeinit(s, cfg) ==
    LET s1 == strcpy([s EXCEPT !.useFirstSender = cfg.first], cfg.name)
    IN  IF s1.phase = "live" THEN win_spout_init(s1, FALSE) ELSE s1

win_spout_update(s, cfg) ==
    LET s1 == strcpy([s EXCEPT !.useFirstSender = cfg.first], cfg.name)
        s2 == win_spout_deinit(s1)
    IN  IF s1.phase # "live" THEN s1
        ELSE IF s1.initialized
             THEN IF s2.phase = "live" THEN win_spout_init(s2, FALSE) ELSE s2
             ELSE s1

(* win_spout_show, win_spout_hide *)
win_spout_show(s) == win_spout_init(s, TRUE)
win_spout_hide(s) == win_spout_deinit(s)

(* win_spout_tick; act is obs_source_active(context->source) *)
win_spout_tick_Rebind(s, act) ==
    LET s1 == [s EXCEPT !.active = act]
    IN  IF ~s1.initialized THEN win_spout_init(s1, FALSE)
        ELSE win_spout_init(win_spout_deinit(s1), FALSE)

win_spout_tick_WhenBound(s, act) ==
    LET s1 == [s EXCEPT !.active = act]
    IN  IF s1.initialized THEN win_spout_init(s1, FALSE) ELSE s1

win_spout_tick(s, act) ==
    LET s1 == [s EXCEPT !.active = act]
    IN  IF ~s1.initialized THEN win_spout_init(s1, FALSE) ELSE s1

(* win_spout_destroy *)
win_spout_destroy_NoDeinit(s) ==
    LET s2 == IF s.spoutptr # NoSpout THEN Call(s, "Release") ELSE s
    IN  [s2 EXCEPT !.phase = "destroyed", !.initialized = FALSE]

win_spout_destroy(s) ==
    LET s1 == win_spout_deinit(s)
        s2 == IF s1.spoutptr # NoSpout THEN Call(s1, "Release") ELSE s1
    IN  IF s1.phase # "live" THEN s1 ELSE [s2 EXCEPT !.phase = "destroyed"]

(* win_spout_render, lines 263-278: whether the frame is drawn *)
RenderGate_NoTextureCheck(s) == s.active /\ s.initialized

RenderGate(s) == s.active /\ s.initialized /\ s.texture # NULL

(* win_spout_create: the struct after bzalloc and the assignments, then update *)
win_spout_create(cfg, ptr) ==
    LET c == [senderName |-> "", useFirstSender |-> TRUE, texture |-> NULL,
              dxHandle |-> NoHandle, spoutptr |-> ptr, lastCheckTick |-> DwZero,
              width |-> 100, height |-> 100, initialized |-> FALSE,
              active |-> FALSE, phase |-> "live", activeSender |-> "none",
              nextTex |-> 1, destroyed |-> [i \in 1..MaxTex |-> 0],
              bound |-> NoBinding, ev |-> <<>>, found |-> "none"]
    IN  win_spout_update(c, cfg)

----------------------------------------------------------------------------
(* The host: one action per callback, and the surroundings' own steps *)

Count(q, e) == Cardinality({i \in 1..Len(q) : q[i] = e})
Remove(q, e) == SelectSeq(q, LAMBDA x : x # e)

\* the callback named op ran from the current state and left the instance as r
Commit(r, op, drew) ==
    /\ r.nextTex <= MaxTex + 1
    /\ senderName' = r.senderName
    /\ useFirstSender' = r.useFirstSender
    /\ texture' = r.texture
    /\ dxHandle' = r.dxHandle
    /\ spoutptr' = r.spoutptr
    /\ lastCheckTick' = r.lastCheckTick
    /\ width' = r.width
    /\ height' = r.height
    /\ initialized' = r.initialized
    /\ active' = r.active
    /\ phase' = r.phase
    /\ activeSender' = r.activeSender
    /\ nextTex' = r.nextTex
    /\ destroyed' = r.destroyed
    /\ bound' = IF r.initialized THEN r.bound ELSE NoBinding
    /\ lastOp' = [op |-> op, t |-> now,
                  preInit |-> initialized, preTex |-> texture, ev |-> r.ev,
                  found |-> r.found, drew |-> drew]
    /\ prevOp' = IF lastOp.op = "tick"
                 THEN [tick |-> TRUE, t |-> lastOp.t, unbound |-> ~lastOp.preInit,
                       attempts |-> Count(lastOp.ev, "count"), repeat |-> FALSE]
                 ELSE [NoPrev EXCEPT !.repeat = /\ op = "update"
                                               /\ lastOp.op = "update"
                                               /\ settings' = settings]
    /\ UNCHANGED <<senders, importable, now, advances, race>>

Update(cfg) ==
    /\ phase = "live"
    /\ settings' = cfg
    /\ Commit(win_spout_update(State, cfg), "update", FALSE)

Show ==
    /\ phase = "live"
    /\ UNCHANGED settings
    /\ Commit(win_spout_show(State), "show", FALSE)

Hide ==
    /\ phase = "live"
    /\ UNCHANGED settings
    /\ Commit(win_spout_hide(State), "hide", FALSE)

Tick(act) ==
    /\ phase = "live"
    /\ UNCHANGED settings
    /\ Commit(win_spout_tick(State, act), "tick", FALSE)

Render ==
    /\ phase = "live"
    /\ UNCHANGED settings
    /\ Commit(State, "render", RenderGate(State))

Destroy ==
    /\ phase = "live"
    /\ UNCHANGED settings
    /\ Commit(win_spout_destroy(State), "destroy", FALSE)

\* the surroundings
Advance(d) ==
    /\ phase = "live"
    /\ advances < MaxAdvance
    /\ advances' = advances + 1
    /\ now' = DwAdd(now, Dw(0, d))
    /\ UNCHANGED <<ctxVars, phase, settings, senders, importable, activeSender,
                   nextTex, destroyed, bound, lastOp, prevOp, race>>

SenderJoin(n) ==
    /\ phase = "live"
    /\ n \notin Range(senders)
    /\ senders' = Append(senders, n)
    /\ lastOp' = EnvOp
    /\ prevOp' = NoPrev
    /\ UNCHANGED <<ctxVars, phase, settings, importable, activeSender, now,
                   advances, nextTex, destroyed, bound, race>>

SenderLeave(n) ==
    /\ phase = "live"
    /\ n \in Range(senders)
    /\ senders' = Remove(senders, n)
    /\ lastOp' = EnvOp
    /\ prevOp' = NoPrev
    /\ UNCHANGED <<ctxVars, phase, settings, importable, activeSender, now,
                   advances, nextTex, destroyed, bound, race>>

ImportChange(h) ==
    /\ phase = "live"
    /\ importable' = IF h \in importable THEN importable \ {h}
                     ELSE importable \cup {h}
    /\ lastOp' = EnvOp
    /\ prevOp' = NoPrev
    /\ UNCHANGED <<ctxVars, phase, settings, senders, activeSender, now,
                   advances, nextTex, destroyed, bound, race>>

\* the state win_spout_create returns for settings drawn from cfgs
Created(cfgs) ==
    /\ now \in StartTicks
    /\ advances = 0
    /\ senders = <<>>
    /\ importable = Handles
    /\ \E cfg \in cfgs, ptr \in {NoSpout, TheSpout} :
         LET c == win_spout_create(cfg, ptr)
         IN  /\ settings = cfg
             /\ senderName = c.senderName
             /\ useFirstSender = c.useFirstSender
             /\ texture = c.texture
             /\ dxHandle = c.dxHandle
             /\ spoutptr = c.spoutptr
             /\ lastCheckTick = c.lastCheckTick
             /\ width = c.width
             /\ height = c.height
             /\ initialized = c.initialized
             /\ active = c.active
             /\ phase = c.phase
             /\ activeSender = c.activeSender
             /\ nextTex = c.nextTex
             /\ destroyed = c.destroyed
             /\ bound = c.bound
    /\ lastOp = NoOp
    /\ prevOp = NoPrev

Init == Created(Settings) /\ race = RaceIdle

Next ==
    \/ \E cfg \in Settings : Update(cfg)
    \/ Show
    \/ Hide
    \/ \E act \in BOOLEAN : Tick(act)
    \/ Render
    \/ Destroy
    \/ \E d \in StepMs : Advance(d)
    \/ \E n \in SenderNames : SenderJoin(n)
    \/ \E n \in SenderNames : SenderLeave(n)
    \/ \E h \in Handles : ImportChange(h)

Spec == Init /\ [][Next]_vars

(* The same host, with a user who may also type a text longer than the     *)
(* senderName buffer into the custom-name field.                           *)
InitLong == Created(Settings \cup LongSettings) /\ race = RaceIdle

NextLong ==
    \/ Next
    \/ \E cfg \in LongSettings : Update(cfg)

SpecLong == InitLong /\ [][NextLong]_vars

TickAny == \E act \in BOOLEAN : Tick(act)

(* hide on one thread and render on another, statement by statement.      *)
(* win_spout_deinit, lines 143-151 *)
RaceStep(r) ==
    /\ race' = r
    /\ UNCHANGED <<senderName, useFirstSender, dxHandle, spoutptr, lastCheckTick,
                   width, height, active, phase, settings, senders, importable,
                   activeSender, now, advances, nextTex, bound, lastOp, prevOp>>

HideBegin ==
    /\ phase = "live" /\ spoutptr # NoSpout /\ race.main = "idle"
    /\ initialized' = FALSE
    /\ RaceStep([race EXCEPT !.main = "d_test"])
    /\ UNCHANGED <<texture, destroyed>>

HideTest ==
    /\ race.main = "d_test"
    /\ RaceStep([race EXCEPT !.main = IF texture # NULL THEN "d_enter"
                                      ELSE "d_release"])
    /\ UNCHANGED <<initialized, texture, destroyed>>

HideEnter ==
    /\ race.main = "d_enter" /\ race.gfx = "free"
    /\ RaceStep([race EXCEPT !.main = "d_destroy", !.gfx = "main"])
    /\ UNCHANGED <<initialized, texture, destroyed>>

HideDestroyTexture ==
    /\ race.main = "d_destroy"
    /\ destroyed' = IF texture # NULL THEN [destroyed EXCEPT ![texture.id] = @ + 1]
                    ELSE destroyed
    /\ RaceStep([race EXCEPT !.main = "d_leave"])
    /\ UNCHANGED <<initialized, texture>>

HideLeave ==
    /\ race.main = "d_leave"
    /\ RaceStep([race EXCEPT !.main = "d_clear", !.gfx = "free"])
    /\ UNCHANGED <<initialized, texture, destroyed>>

HideClear ==
    /\ race.main = "d_clear"
    /\ texture' = NULL
    /\ RaceStep([race EXCEPT !.main = "d_release"])
    /\ UNCHANGED <<initialized, destroyed>>

HideRelease ==
    /\ race.main = "d_release"
    /\ RaceStep([race EXCEPT !.main = "idle"])
    /\ UNCHANGED <<initialized, texture, destroyed>>

(* win_spout_render, lines 263-286 *)
RenderBegin ==
    /\ phase = "live" /\ race.render = "idle"
    /\ race.hostScope => race.gfx = "free"
    /\ RaceStep([race EXCEPT !.render = IF active THEN "r_init" ELSE "r_end",
                             !.gfx = IF race.hostScope THEN "render" ELSE @])
    /\ UNCHANGED <<initialized, texture, destroyed>>

RenderTestInitialized ==
    /\ race.render = "r_init"
    /\ RaceStep([race EXCEPT !.render = IF initialized THEN "r_tex" ELSE "r_end"])
    /\ UNCHANGED <<initialized, texture, destroyed>>

RenderTestTexture ==
    /\ race.render = "r_tex"
    /\ RaceStep([race EXCEPT !.rtex = texture,
                             !.render = IF texture # NULL THEN "r_draw" ELSE "r_end"])
    /\ UNCHANGED <<initialized, texture, destroyed>>

\* obs_source_draw(context->texture, ...): the pointer tested on line 275 or
\* the pointer as it is now, as the compiler chose to load it
RenderDraw ==
    /\ race.render = "r_draw"
    /\ \E tex \in {race.rtex, texture} :
         RaceStep([race EXCEPT !.render = "r_end",
                               !.drewDestroyed =
                                  @ \/ (tex # NULL /\ destroyed[tex.id] > 0)])
    /\ UNCHANGED <<initialized, texture, destroyed>>

RenderEnd ==
    /\ race.render = "r_end"
    /\ RaceStep([race EXCEPT !.render = "idle", !.rtex = NULL,
                             !.gfx = IF race.hostScope THEN "free" ELSE @])
    /\ UNCHANGED <<initialized, texture, destroyed>>

\* tick runs whole, between the two
RaceTick == race.main = "idle" /\ race.render = "idle" /\ TickAny

InitRace ==
    /\ Created(Settings)
    /\ \E h \in BOOLEAN : race = [RaceIdle EXCEPT !.hostScope = h]

NextRace ==
    \/ RaceTick
    \/ \E n \in SenderNames : SenderJoin(n)
    \/ HideBegin \/ HideTest \/ HideEnter \/ HideDestroyTexture
    \/ HideLeave \/ HideClear \/ HideRelease
    \/ RenderBegin \/ RenderTestInitialized \/ RenderTestTexture
    \/ RenderDraw \/ RenderEnd

SpecRace == InitRace /\ [][NextRace]_vars

(* The source left to itself: the host ticks it every frame (video_tick)   *)
(* and renders it, nobody hides, shows, reconfigures or destroys it, and   *)
(* the surroundings change as they like.                                   *)
NextTicking ==
    \/ TickAny
    \/ Render
    \/ \E d \in StepMs : Advance(d)
    \/ \E n \in SenderNames : SenderJoin(n)
    \/ \E n \in SenderNames : SenderLeave(n)
    \/ \E h \in Handles : ImportChange(h)

SpecTicking == Init /\ [][NextTicking]_vars /\ WF_vars(TickAny)

----------------------------------------------------------------------------
(* Properties *)

\* position of the first e in q, 0 when there is none
Pos(q, e) == IF \E i \in 1..Len(q) : q[i] = e
             THEN CHOOSE i \in 1..Len(q) : q[i] = e /\ \A j \in 1..(i - 1) : q[j] # e
             ELSE 0
\* number of directory queries (GetSenderCount calls) the last callback made
Attempts == Count(lastOp.ev, "count")

(* C1: the instance is never BOUND (initialized) with a null texture; a   *)
(* failed import leaves it UNBOUND.                                        *)
C1_BoundHasTexture == initialized => texture # NULL

(* C2: whenever a callback has returned, UNBOUND (initialized = false)     *)
(* implies that the texture pointer is null.                               *)
C2_UnboundHasNoTexture == ~initialized => texture = NULL

C2_Witness ==
    /\ lastOp.op = "hide" /\ lastOp.preInit /\ lastOp.preTex # NULL
    /\ ~initialized /\ texture = NULL

(* C3: of two consecutive non-forced ticks less than 5000 ms apart, with   *)
(* the instance UNBOUND throughout, at most one queries the directory.     *)
C3_RateLimit ==
    ( /\ lastOp.op = "tick" /\ ~lastOp.preInit /\ ~initialized
      /\ prevOp.tick /\ prevOp.unbound
      /\ DwLess(DwSub(lastOp.t, prevOp.t), RetryDw) )
    => prevOp.attempts + Attempts <= 1

(* C4 as stated: every update, BOUND or UNBOUND, destroys the binding if   *)
(* there is one and then makes a discovery attempt before it returns       *)
(* (the directory handle being available).                                 *)
C4_Original ==
    (lastOp.op = "update" /\ spoutptr # NoSpout)
    => /\ Attempts >= 1
       /\ lastOp.preTex # NULL =>
            /\ Pos(lastOp.ev, "destroy") > 0
            /\ Pos(lastOp.ev, "destroy") < Pos(lastOp.ev, "count")

(* C4 amended: an update in state BOUND destroys the binding and then      *)
(* makes exactly one discovery attempt with the new policy before it       *)
(* returns, whatever the time; an update in state UNBOUND makes no         *)
(* discovery attempt and leaves the instance UNBOUND.                      *)
C4_Amended ==
    lastOp.op = "update"
    => IF lastOp.preInit
       THEN /\ Attempts = 1
            /\ lastOp.preTex # NULL =>
                 /\ destroyed[lastOp.preTex.id] = 1
                 /\ texture # lastOp.preTex
                 /\ Pos(lastOp.ev, "destroy") > 0
                 /\ Pos(lastOp.ev, "destroy") < Pos(lastOp.ev, "count")
       ELSE lastOp.ev = <<>> /\ ~initialized

C4_Witness ==
    /\ lastOp.op = "update" /\ lastOp.preInit /\ lastOp.preTex # NULL
    /\ DwLess(lastOp.t, RetryDw)
    /\ Attempts = 1

(* C5 as stated: every show makes a discovery attempt at once (the         *)
(* directory handle being available), and when BOUND it first destroys     *)
(* the binding.                                                            *)
C5_Original ==
    (lastOp.op = "show" /\ spoutptr # NoSpout)
    => /\ Attempts >= 1
       /\ (lastOp.preInit /\ lastOp.preTex # NULL) => Pos(lastOp.ev, "destroy") > 0

(* C5 amended: a show in state UNBOUND with a directory handle queries     *)
(* the directory at once, whatever the time; a show in state BOUND does    *)
(* nothing: the binding is kept and the directory is not queried.          *)
C5_Amended ==
    lastOp.op = "show"
    => IF lastOp.preInit
       THEN lastOp.ev = <<>> /\ initialized /\ texture = lastOp.preTex
       ELSE IF spoutptr # NoSpout
            THEN Attempts = 1 /\ lastOp.ev[1] = "count"
            ELSE lastOp.ev = <<>> /\ ~initialized

C5_Witness ==
    /\ lastOp.op = "show" /\ lastOp.preInit /\ lastOp.preTex # NULL
    /\ initialized /\ texture = lastOp.preTex

(* C6: hide in state BOUND ends UNBOUND with a null texture pointer, and   *)
(* the texture that was bound is destroyed exactly once over the run: no   *)
(* texture is ever destroyed twice, and every texture the instance no      *)
(* longer holds has been destroyed.                                        *)
C6_HideReleasesOnce ==
    /\ (lastOp.op = "hide" /\ lastOp.preInit)
       => /\ ~initialized /\ texture = NULL
          /\ lastOp.preTex # NULL => destroyed[lastOp.preTex.id] = 1
    /\ \A i \in 1..MaxTex :
         /\ destroyed[i] <= 1
         /\ (i < nextTex /\ i # texture.id) => destroyed[i] = 1
         /\ i = texture.id => destroyed[i] = 0

C6_Witness ==
    /\ lastOp.op = "hide" /\ lastOp.preInit /\ lastOp.preTex # NULL
    /\ destroyed[lastOp.preTex.id] = 1
    /\ lastOp.preTex.id > 1

(* C7: BOUND to producer A, an update to ExplicitName(B) with B active and *)
(* its handle importable returns with A's texture destroyed and the        *)
(* instance BOUND to a texture imported from B's handle, width and height  *)
(* being B's.                                                              *)
C7_RebindToNamed ==
    \A B \in SenderNames :
      ( /\ lastOp.op = "update" /\ lastOp.preInit /\ lastOp.preTex # NULL
        /\ settings = [first |-> FALSE, name |-> B]
        /\ B \in Range(senders)
        /\ SenderInfo(B).handle \in importable )
      => /\ destroyed[lastOp.preTex.id] = 1
         /\ initialized
         /\ texture # NULL /\ texture.id # lastOp.preTex.id
         /\ texture.h = SenderInfo(B).handle
         /\ width = SenderInfo(B).width
         /\ height = SenderInfo(B).height

C7_Witness ==
    /\ lastOp.op = "update" /\ lastOp.preInit
    /\ lastOp.preTex # NULL /\ lastOp.preTex.h = SenderInfo("camA").handle
    /\ settings = [first |-> FALSE, name |-> "camB"]
    /\ initialized /\ texture # NULL /\ texture.h = SenderInfo("camB").handle
    /\ width = 1280 /\ height = 720

(* C8: under ExplicitName(n), the empty n included, the instance is only   *)
(* ever BOUND to the producer named n, with the handle and dimensions the  *)
(* directory reported for n; an attempt while n is not active binds        *)
(* nothing, whatever else is active.                                       *)
C8_ExplicitBindsOnlyNamed ==
    ~useFirstSender
    => /\ senderName = settings.name
       /\ initialized =>
            /\ settings.name \in SenderNames
            /\ bound = SenderInfo(settings.name)
            /\ width = bound.width /\ height = bound.height
            /\ dxHandle = bound.handle
            /\ texture # NULL => texture.h = bound.handle
       /\ (Attempts >= 1 /\ settings.name \notin Range(senders))
            => ~initialized /\ lastOp.found = "none"

C8_Witness ==
    /\ ~useFirstSender /\ initialized /\ texture # NULL
    /\ Len(senders) = 2 /\ settings.name = senders[2]
    /\ lastOp.found = settings.name

(* C9: with the 'use first available' flag set, whatever the explicit-name *)
(* text, a successful discovery marks the producer at directory index 0 as *)
(* active and binds to it, width and height being that producer's.         *)
C9_FirstAvailableWins ==
    (useFirstSender /\ lastOp.found # "none")
    => /\ senders # <<>>
       /\ lastOp.found = senders[1]
       /\ activeSender = senders[1]
       /\ initialized
       /\ bound = SenderInfo(senders[1])
       /\ width = SenderInfo(senders[1]).width
       /\ height = SenderInfo(senders[1]).height
       /\ SenderInfo(senders[1]).handle \in importable
            => texture # NULL /\ texture.h = SenderInfo(senders[1]).handle

C9_Witness ==
    /\ useFirstSender /\ lastOp.found = "camA"
    /\ senders = <<"camA", "camB">> /\ settings.name = "camB"
    /\ initialized /\ texture # NULL /\ width = 1920 /\ height = 1080

(* C10: render draws exactly when active, initialized and a non-null       *)
(* texture all hold, and changes nothing of the instance.                  *)
C10_RenderIsGatedAndPure ==
    [][lastOp'.op = "render"
       => /\ UNCHANGED <<ctxVars, settings, phase, activeSender, nextTex,
                         destroyed, bound>>
          /\ lastOp'.drew <=> (active /\ initialized /\ texture # NULL)
          /\ lastOp'.ev = <<>>]_vars

C10_Witness == lastOp.op = "render" /\ lastOp.drew /\ texture # NULL

(* C11: with no directory handle (spoutptr null) every later callback      *)
(* completes without dereferencing it and the instance stays UNBOUND.      *)
C11_NullHandleIsAbsorbed ==
    spoutptr = NoSpout => (phase # "crashed" /\ ~initialized)

(* C12: the instance owns at most one live texture, an import comes after  *)
(* the destruction of the texture owned before, no texture is destroyed    *)
(* twice, and once destroy has completed every imported texture has been   *)
(* destroyed and the directory handle released.                            *)
Live == {i \in 1..MaxTex : i < nextTex /\ destroyed[i] = 0}

C12_OneLiveTexture ==
    /\ Cardinality(Live) <= 1
    /\ Live \subseteq {texture.id}
    /\ \A i \in 1..MaxTex : destroyed[i] <= 1
    /\ (lastOp.preTex # NULL /\ Pos(lastOp.ev, "import") > 0)
         => /\ Pos(lastOp.ev, "destroy") > 0
            /\ Pos(lastOp.ev, "destroy") < Pos(lastOp.ev, "import")
    /\ phase = "destroyed"
         => /\ Live = {} /\ texture = NULL
            /\ lastOp.op = "destroy"
            /\ Pos(lastOp.ev, "Release") > 0

C12_Witness ==
    /\ phase = "destroyed" /\ lastOp.preTex # NULL /\ lastOp.preTex.id = 2
    /\ destroyed[1] = 1 /\ destroyed[2] = 1

(* C13: with the directory unchanged, a second update with the same        *)
(* configuration leaves the policy and the binding state (BOUND/UNBOUND,   *)
(* width, height) as the first left them, and one update call destroys at  *)
(* most one binding and makes at most one discovery attempt.               *)
C13_UpdateIdempotent ==
    [][(lastOp.op = "update" /\ lastOp'.op = "update" /\ settings' = settings)
       => /\ useFirstSender' = useFirstSender
          /\ senderName' = senderName
          /\ initialized' = initialized
          /\ (texture' = NULL) <=> (texture = NULL)
          /\ width' = width /\ height' = height
          /\ bound' = bound
          /\ Count(lastOp'.ev, "destroy") <= 1
          /\ Count(lastOp'.ev, "count") <= 1]_vars

C13_Witness ==
    /\ lastOp.op = "update" /\ prevOp.repeat
    /\ lastOp.preInit /\ lastOp.preTex # NULL
    /\ Count(lastOp.ev, "destroy") = 1 /\ Attempts = 1
    /\ initialized /\ texture # NULL /\ texture.h = lastOp.preTex.h

(* C16: a discovery attempt that returns none leaves the instance UNBOUND  *)
(* with a null texture and leaves width, height and the policy as they     *)
(* were: 100x100 while nothing was ever found, the last found sender's     *)
(* dimensions afterwards.                                                  *)
AttemptedNone(o) ==
    /\ o.found = "none"
    /\ \/ o.op \in {"tick", "show"} /\ ~o.preInit
       \/ o.op = "update" /\ o.preInit

C16_FailedAttemptChangesNothing ==
    [][AttemptedNone(lastOp')
       => /\ ~initialized' /\ texture' = NULL
          /\ width' = width /\ height' = height
          /\ useFirstSender' = settings'.first
          /\ ~useFirstSender' => senderName' = settings'.name
          /\ lastOp'.op # "update"
               => useFirstSender' = useFirstSender /\ senderName' = senderName
          /\ IF dxHandle' = NoHandle THEN width' = 100 /\ height' = 100
             ELSE \E n \in SenderNames :
                    /\ SenderInfo(n).handle = dxHandle'
                    /\ width' = SenderInfo(n).width
                    /\ height' = SenderInfo(n).height]_vars

C16_Witness ==
    /\ lastOp.op = "update" /\ lastOp.preInit /\ lastOp.found = "none"
    /\ Attempts = 1 /\ senders # <<>>
    /\ ~initialized /\ width = 1920 /\ height = 1080

(* C17: a tick in state BOUND queries nothing and leaves the texture,      *)
(* width, height, policy and the BOUND state unchanged.                    *)
C17_BoundTickIsNoOp ==
    [][(lastOp'.op = "tick" /\ lastOp'.preInit)
       => /\ lastOp'.ev = <<>>
          /\ initialized'
          /\ UNCHANGED <<texture, width, height, useFirstSender, senderName,
                         initialized, dxHandle, bound, nextTex, destroyed>>]_vars

C17_Witness ==
    /\ lastOp.op = "tick" /\ lastOp.preInit /\ lastOp.ev = <<>>
    /\ initialized /\ texture # NULL /\ texture = lastOp.preTex

(* C18: every discovery attempt sets lastCheckTick to the current time.    *)
C18_AttemptIsTimestamped ==
    Attempts >= 1 => lastCheckTick = lastOp.t

(* C14: once the bound producer has left the directory, ticks alone make   *)
(* the instance leave the stale binding.                                   *)
Stale == initialized /\ bound.name \notin Range(senders)

C14_StaleBindingIsLeft == Stale ~> ~initialized

(* C19: with a directory handle, while a producer matching the policy is   *)
(* active and its handle imports, fair ticks bring an UNBOUND instance to  *)
(* BOUND with that producer's texture and dimensions.                      *)
Matching ==
    IF useFirstSender THEN (IF senders = <<>> THEN {} ELSE {senders[1]})
    ELSE {settings.name} \cap Range(senders)

Clear ==
    /\ spoutptr # NoSpout
    /\ \E n \in Matching : SenderInfo(n).handle \in importable

BoundToMatching ==
    /\ initialized /\ texture # NULL
    /\ \E n \in Matching :
         /\ bound = SenderInfo(n)
         /\ texture.h = SenderInfo(n).handle
         /\ width = SenderInfo(n).width /\ height = SenderInfo(n).height

C19_RetryUntilBound == (~initialized /\ Clear) ~> (BoundToMatching \/ ~Clear)

C19_Witness ==
    /\ lastOp.op = "tick" /\ ~lastOp.preInit /\ lastOp.found # "none"
    /\ Clear /\ BoundToMatching
    /\ DwLess(lastOp.t, RetryDw)

(* C20: after create or update with a text of any length, the stored name  *)
(* is at most 255 units long: it fits the 256-unit buffer with its         *)
(* terminator and nothing is written past it.                              *)
C20_StoredNameFits ==
    /\ NameLen(senderName) <= SenderNameSize - 1
    /\ phase # "corrupt"

(* C15: with render on another thread, the texture pointer is read,       *)
(* cleared and its texture destroyed only by a thread that holds the       *)
(* graphics scope, and render never draws a destroyed texture.             *)
C15_TextureOnlyInScope ==
    /\ race.main \in {"d_test", "d_destroy", "d_clear"} => race.gfx = "main"
    /\ race.render \in {"r_tex", "r_draw"} => race.gfx = "render"
    /\ ~race.drewDestroyed

====
